---- MODULE Spec2Model ----
(***************************************************************************)
(* rayopt.system.System: an optical train kept as a Python list of         *)
(* elements, with reversal, rescaling, convex resizing, outline cuts and   *)
(* the paraxial matrix chain.                                              *)
(*                                                                         *)
(* Real-valued attributes (distance, radius, curvature, scale, refractive  *)
(* index, matrix entries) are exact rationals [n |-> numerator,            *)
(* d |-> denominator], normalised so that equal numbers are equal records. *)
(* An element is a record; its id field is the identity of the Python      *)
(* object, so that "the same element" can be followed through a reordering.*)
(* material is "absent" when the element has no material attribute,        *)
(* "none" when the attribute is None, "air" for a non-solid material and   *)
(* "glass" for a solid one.                                                *)
(***************************************************************************)
EXTENDS Integers, Sequences, FiniteSets, TLC

VARIABLES train, scale, op, err, prev, prevScale, pop, prev2, cut, pm, steps

vars == <<train, scale, op, err, prev, prevScale, pop, prev2, cut, pm, steps>>

(***************************************************************************)
(* Bounds of the model.                                                    *)
(***************************************************************************)
MaxSteps == 3
MaxCalls == 3
MaxLen == 3
MaxInterior == 3
MaxChain == 2

(***************************************************************************)
(* Rational arithmetic standing for Python floats.                         *)
(***************************************************************************)
Abs(x) == IF x < 0 THEN -x ELSE x

RECURSIVE GCD(_, _)
GCD(a, b) == IF b = 0 THEN a ELSE GCD(b, a % b)

Rat(n, d) ==
    LET s == IF d < 0 THEN -1 ELSE 1
        g == GCD(Abs(n), Abs(d))
    IN  [n |-> (s * n) \div g, d |-> (s * d) \div g]

Zero == Rat(0, 1)
One == Rat(1, 1)
RNeg(a) == [n |-> -a.n, d |-> a.d]
RAdd(a, b) == Rat(a.n * b.d + b.n * a.d, a.d * b.d)
RSub(a, b) == RAdd(a, RNeg(b))
RMul(a, b) == Rat(a.n * b.n, a.d * b.d)
RDiv(a, b) == Rat(a.n * b.d, a.d * b.n)
RLt(a, b) == a.n * b.d < b.n * a.d
RMax(a, b) == IF RLt(a, b) THEN b ELSE a

(***************************************************************************)
(* Elements (rayopt.elements, seen through the attributes System uses).    *)
(***************************************************************************)
Element(id, typ, distance, material, curvature, radius) ==
    [id |-> id, typ |-> typ, distance |-> distance, material |-> material,
     curvature |-> curvature, radius |-> radius]

\* isinstance(e, Object) and isinstance(e, Image)
IsObject(e) == e.typ = "Object"
IsImage(e) == e.typ = "Image"
IsAperture(e) == e.typ = "Aperture"

\* hasattr(e, "material")
HasMaterial(e) == e.material # "absent"

\* e.material.solid, asked only of a material that is not None
Solid(e) == e.material = "glass"

\* e.reverse(): the element-local flip of the curvature sign
ElReverse(e) == [e EXCEPT !.curvature = RNeg(e.curvature)]

\* e.rescale(f): lengths times f, curvature over f
ElRescale(e, f) ==
    [e EXCEPT !.distance = RMul(e.distance, f),
              !.radius = RMul(e.radius, f),
              !.curvature = RDiv(e.curvature, f)]

(***************************************************************************)
(* System.__init__                                                         *)
(***************************************************************************)
\* Object(finite=False), Aperture(), Image()
DefaultTriple ==
    << Element(1, "Object", Zero, "absent", Zero, One),
       Element(2, "Aperture", Zero, "absent", Zero, One),
       Element(3, "Image", Zero, "absent", Zero, One) >>

\* The elements argument of a call: left out, None, or a list.
Omitted == [given |-> "omitted", list |-> << >>]
NoneArg == [given |-> "None", list |-> << >>]
ListArg(l) == [given |-> "list", list |-> l]

\* The parameter's default value, elements=[]
ElementsDefault == ListArg(<< >>)

\* scale=1e-3
ScaleDefault == Rat(1, 1000)

\* The list the constructor stores for a call argument.
SystemInit(arg) ==
    LET elements == IF arg.given = "omitted" THEN ElementsDefault ELSE arg
    IN  IF elements.given = "None" THEN DefaultTriple ELSE elements.list

(***************************************************************************)
(* Role accessors.  A getter or setter returns [train, err]: the list      *)
(* after the call and the exception raised ("" when none).                 *)
(***************************************************************************)
Ok(t) == [train |-> t, err |-> ""]
Raise(t, e) == [train |-> t, err |-> e]

\* object getter: self[0] on an empty list raises IndexError
object_get(t) ==
    IF Len(t) = 0 THEN "IndexError"
    ELSE IF ~IsObject(t[1]) THEN "AssertionError"
    ELSE ""

\* image getter
image_get(t) ==
    IF Len(t) = 0 THEN "IndexError"
    ELSE IF ~IsImage(t[Len(t)]) THEN "AssertionError"
    ELSE ""

\* aperture getter: index of the first Aperture, 0 for the None it returns
RECURSIVE aperture_from(_, _)
aperture_from(t, i) ==
    IF i > Len(t) THEN 0
    ELSE IF IsAperture(t[i]) THEN i
    ELSE aperture_from(t, i + 1)

aperture(t) == aperture_from(t, 1)

\* An object setter that never replaces the head.
object_set_always_insert(t, value) ==
    IF ~IsObject(value) THEN Raise(t, "AssertionError")
    ELSE IF Len(t) = 0 THEN Raise(t, "IndexError")
    ELSE Ok(<<value>> \o t)

\* object setter
object_set(t, value) ==
    IF ~IsObject(value) THEN Raise(t, "AssertionError")
    ELSE IF Len(t) = 0 THEN Raise(t, "IndexError")
    ELSE IF IsObject(t[1]) THEN Ok([t EXCEPT ![1] = value])
    ELSE Ok(<<value>> \o t)

\* image setter
image_set(t, value) ==
    IF ~IsImage(value) THEN Raise(t, "AssertionError")
    ELSE IF Len(t) = 0 THEN Raise(t, "IndexError")
    ELSE IF IsImage(t[Len(t)]) THEN Ok([t EXCEPT ![Len(t)] = value])
    ELSE Ok(Append(t, value))

(***************************************************************************)
(* System.reverse                                                          *)
(***************************************************************************)
\* self[:] = self[::-1]
Reversed(t) ==
    IF Len(t) = 0 THEN << >> ELSE [i \in 1..Len(t) |-> t[Len(t) + 1 - i]]

\* for e in self: e.reverse()
ReverseEach(t) ==
    IF Len(t) = 0 THEN << >> ELSE [i \in 1..Len(t) |-> ElReverse(t[i])]

\* A distance shift that leaves the head's distance where it is.
RECURSIVE ShiftDistancesKeepHead(_, _, _)
ShiftDistancesKeepHead(t, i, d) ==
    IF i > Len(t) THEN t
    ELSE IF i = 1 THEN ShiftDistancesKeepHead(t, i + 1, t[i].distance)
    ELSE ShiftDistancesKeepHead([t EXCEPT ![i].distance = d], i + 1,
                                t[i].distance)

\* for e in self: d, e.distance = e.distance, d   (from position i, carrying d)
RECURSIVE ShiftDistances(_, _, _)
ShiftDistances(t, i, d) ==
    IF i > Len(t) THEN t
    ELSE ShiftDistances([t EXCEPT ![i].distance = d], i + 1, t[i].distance)

\* A material shift that does not ask whether the element has a material.
RECURSIVE ShiftMaterialsAll(_, _, _)
ShiftMaterialsAll(t, i, m) ==
    IF i < 1 THEN t
    ELSE ShiftMaterialsAll([t EXCEPT ![i].material = m], i - 1, t[i].material)

\* for e in self[::-1]: if hasattr(e, "material"): m, e.material = e.material, m
RECURSIVE ShiftMaterials(_, _, _)
ShiftMaterials(t, i, m) ==
    IF i < 1 THEN t
    ELSE IF HasMaterial(t[i])
         THEN ShiftMaterials([t EXCEPT ![i].material = m], i - 1,
                             t[i].material)
         ELSE ShiftMaterials(t, i - 1, m)

reverse(t) ==
    LET t1 == ReverseEach(Reversed(t))
        t2 == ShiftDistances(t1, 1, Zero)
    IN  ShiftMaterials(t2, Len(t2), "none")

(***************************************************************************)
(* System.rescale                                                          *)
(***************************************************************************)
\* scale=None
NoScale == [n |-> 0, d |-> 0]

\* for e in self: e.rescale(scale), where the call on element failAt raises
\* (failAt = 0: no call raises)
RECURSIVE RescaleEach(_, _, _, _)
RescaleEach(t, i, f, failAt) ==
    IF i > Len(t) THEN Ok(t)
    ELSE IF i = failAt THEN Raise(t, "Exception")
    ELSE RescaleEach([t EXCEPT ![i] = ElRescale(t[i], f)], i + 1, f, failAt)

\* [train, scale, err] after rescale(arg)
rescale(t, sc, arg, failAt) ==
    LET f == IF arg = NoScale THEN RDiv(sc, Rat(1, 1000)) ELSE arg
        r == RescaleEach(t, 1, f, failAt)
    IN  [train |-> r.train, scale |-> RDiv(sc, f), err |-> r.err]

(***************************************************************************)
(* System.resize_convex and fix_sizes                                      *)
(***************************************************************************)
\* The loop over self[1:-1] from position i; pending is the position of the
\* pending element (0 for None), c0 its curvature when it became pending.
RECURSIVE ResizeLoop(_, _, _, _)
ResizeLoop(t, i, pending, c0) ==
    IF i > Len(t) - 1 THEN Ok(t)
    ELSE IF ~HasMaterial(t[i]) THEN ResizeLoop(t, i + 1, pending, c0)
    ELSE
      LET c == t[i].curvature
          t1 == IF pending # 0 /\ RLt(c, Zero)
                THEN [t EXCEPT ![i].radius =
                                   RMax(t[i].radius, t[pending].radius)]
                ELSE t
          t2 == IF pending # 0 /\ RLt(Zero, c0)
                THEN [t1 EXCEPT ![pending].radius =
                                    RMax(t1[pending].radius, t1[i].radius)]
                ELSE t1
      IN  IF t[i].material = "none" THEN Raise(t2, "AttributeError")
          ELSE IF Solid(t[i]) THEN ResizeLoop(t2, i + 1, i, c)
          ELSE ResizeLoop(t2, i + 1, 0, c0)

resize_convex(t) == ResizeLoop(t, 2, 0, Zero)

fix_sizes(t) == resize_convex(t)

(***************************************************************************)
(* System.surfaces_cut.  An outline is kept by its two end points: the cut *)
(* of an element runs from x = -radius to x = +radius at the element's     *)
(* axial position.  A yield is [kind, el, with, cl, cu]: an open curve of  *)
(* the element at position el, or the closed polygon joining the pending   *)
(* outline of position with to the outline of position el through the      *)
(* corners cl and cu.                                                      *)
(***************************************************************************)
\* e.transform_from(e.surface_cut(axis, points)), z += z0
Outline(t, i, z) ==
    [el |-> i, x0 |-> RNeg(t[i].radius), x1 |-> t[i].radius,
     z0 |-> z, z1 |-> z]

\* pending = None
NoOutline == [el |-> 0, x0 |-> Zero, x1 |-> Zero, z0 |-> Zero, z1 |-> Zero]

\* yield x, z
OpenCurve(o) ==
    [kind |-> "open", el |-> o.el, with |-> 0,
     cl |-> <<Zero, Zero>>, cu |-> <<Zero, Zero>>]

\* yield np.c_[(px, pz), cu, (x[::-1], z[::-1]), cl, (px[0], pz[0])]
ClosedPolygon(p, o) ==
    [kind |-> "closed", el |-> o.el, with |-> p.el,
     cl |-> IF RLt(o.x0, p.x0) THEN <<o.x0, p.z0>> ELSE <<p.x0, o.z0>>,
     cu |-> IF RLt(p.x1, o.x1) THEN <<o.x1, p.z1>> ELSE <<p.x1, o.z1>>]

\* A cut loop that does not clear the pending outline at a non-solid surface.
RECURSIVE CutLoopKeepPending(_, _, _, _, _)
CutLoopKeepPending(t, i, z0, pending, out) ==
    IF i > Len(t) THEN out
    ELSE
      LET z == RAdd(z0, t[i].distance)
          o == Outline(t, i, z)
      IN  IF t[i].material \in {"absent", "none"}
          THEN CutLoopKeepPending(t, i + 1, z, pending,
                                  Append(out, OpenCurve(o)))
          ELSE
            LET out1 == IF pending.el # 0
                        THEN Append(out, ClosedPolygon(pending, o))
                        ELSE IF ~Solid(t[i]) THEN Append(out, OpenCurve(o))
                        ELSE out
            IN  CutLoopKeepPending(t, i + 1, z,
                                   IF Solid(t[i]) THEN o ELSE pending, out1)

\* The loop of surfaces_cut from position i, with the running z0, the
\* pending outline and the yields so far.
RECURSIVE CutLoop(_, _, _, _, _)
CutLoop(t, i, z0, pending, out) ==
    IF i > Len(t) THEN out
    ELSE
      LET z == RAdd(z0, t[i].distance)
          o == Outline(t, i, z)
      IN  IF t[i].material \in {"absent", "none"}
          THEN CutLoop(t, i + 1, z, pending, Append(out, OpenCurve(o)))
          ELSE
            LET out1 == IF pending.el # 0
                        THEN Append(out, ClosedPolygon(pending, o))
                        ELSE IF ~Solid(t[i]) THEN Append(out, OpenCurve(o))
                        ELSE out
            IN  CutLoop(t, i + 1, z,
                        IF Solid(t[i]) THEN o ELSE NoOutline, out1)

surfaces_cut(t) == CutLoop(t, 1, Zero, NoOutline, << >>)

(***************************************************************************)
(* The paraxial matrix chain.  Wavelengths are 1 and 2; a matrix is        *)
(* <<<<a, b>>, <<c, d>>>>.                                                 *)
(***************************************************************************)
\* material.refractive_index(l)
MaterialIndex(m, l) ==
    IF m = "glass" THEN (IF l = 1 THEN Rat(3, 2) ELSE Rat(2, 1)) ELSE One

\* e.refractive_index(l)
ElRefractiveIndex(e, l) == MaterialIndex(e.material, l)

\* e.paraxial_matrix(n0, l) -> (n, M): the transfer over e.distance in the
\* medium of index n0, then the refraction into the element's own medium
\* (an element without a material leaves the medium as it is), in the
\* coordinates (height, index times angle).
ElParaxialMatrix(e, n0, l) ==
    LET n == IF e.material \in {"absent", "none"} THEN n0
             ELSE ElRefractiveIndex(e, l)
        dn == RDiv(e.distance, n0)
        p == RMul(RSub(n, n0), e.curvature)
    IN  [n |-> n,
         m |-> << <<One, dn>>, <<RNeg(p), RSub(One, RMul(p, dn))>> >>]

\* np.eye(2)
Eye == << <<One, Zero>>, <<Zero, One>> >>

\* np.dot(a, b)
Dot(a, b) ==
    << << RAdd(RMul(a[1][1], b[1][1]), RMul(a[1][2], b[2][1])),
          RAdd(RMul(a[1][1], b[1][2]), RMul(a[1][2], b[2][2])) >>,
       << RAdd(RMul(a[2][1], b[1][1]), RMul(a[2][2], b[2][1])),
          RAdd(RMul(a[2][1], b[1][2]), RMul(a[2][2], b[2][2])) >> >>

\* for e in self[start:stop or len(self)]: n, m = e.paraxial_matrix(n, l);
\* yield n, m        (positions i..hi of the list, carrying n)
RECURSIVE MatricesLoop(_, _, _, _, _, _)
MatricesLoop(t, l, i, hi, n, out) ==
    IF i > hi THEN out
    ELSE LET r == ElParaxialMatrix(t[i], n, l)
         IN  MatricesLoop(t, l, i + 1, hi, r.n, Append(out, r))

\* stop = 0 stands for None as well: the code reads "stop or len(self)"
paraxial_matrices(t, l, start, stop) ==
    MatricesLoop(t, l, start + 1, IF stop = 0 THEN Len(t) ELSE stop,
                 ElRefractiveIndex(t[start], l), << >>)

\* A fold that multiplies each matrix on the right: m = np.dot(m, mi).
RECURSIVE FoldRight(_, _, _)
FoldRight(ms, i, m) ==
    IF i > Len(ms) THEN m ELSE FoldRight(ms, i + 1, Dot(m, ms[i].m))

\* for n, mi in ...: m = np.dot(mi, m)
RECURSIVE FoldLeft(_, _, _)
FoldLeft(ms, i, m) ==
    IF i > Len(ms) THEN m ELSE FoldLeft(ms, i + 1, Dot(ms[i].m, m))

paraxial_matrix(t, l, start, stop) ==
    FoldLeft(paraxial_matrices(t, l, start, stop), 1, Eye)

(***************************************************************************)
(* Inputs: the element lists a System is constructed from.                 *)
(***************************************************************************)
Marker(typ, d) == Element(0, typ, d, "absent", Zero, One)
Surface(d, m, c, r) == Element(0, "Surface", d, m, c, r)

\* The lists of length at most n over the elements P, each element
\* identified by its position in the list.
Lists(P, n) ==
    UNION { { [i \in 1..k |-> [l[i] EXCEPT !.id = i]] : l \in [1..k -> P] }
            : k \in 1..n } \cup { << >> }

\* Object, interior elements from P (at most n), Image.
Framed(P, n) ==
    { [i \in 1..(Len(l) + 2) |->
          IF i = 1 THEN Element(1, "Object", Zero, "absent", Zero, One)
          ELSE IF i = Len(l) + 2
               THEN Element(i, "Image", One, "absent", Zero, One)
          ELSE [l[i - 1] EXCEPT !.id = i]] : l \in Lists(P, n) }

Markers == {"Object", "Aperture", "Image"}

LifeElems ==
    { Marker(ty, Zero) : ty \in Markers }
    \cup { Surface(One, "glass", One, One) }

RevElems ==
    { Marker(ty, d) : ty \in Markers, d \in {Zero, One} }
    \cup { Surface(d, mc[1], mc[2], One) :
             d \in {Zero, One},
             mc \in { <<"none", Zero>>, <<"air", RNeg(One)>>,
                      <<"glass", One>> } }

SetElems ==
    { Marker(ty, Zero) : ty \in Markers }
    \cup { Surface(One, "glass", One, One) }

SizeElems ==
    { Surface(One, "glass", c, r) :
        c \in {RNeg(One), Zero, One}, r \in {One, Rat(2, 1)} }
    \cup { Surface(One, "air", c, r) :
        c \in {RNeg(One), One}, r \in {One, Rat(2, 1)} }
    \cup { Surface(One, "none", Zero, One), Marker("Aperture", One) }

CutElems ==
    { Marker(ty, One) : ty \in Markers }
    \cup { Surface(One, m, One, r) :
             m \in {"none", "air", "glass"}, r \in {One, Rat(2, 1)} }

ChainElems ==
    { Surface(One, "glass", One, One), Surface(Rat(2, 1), "air", RNeg(One), One),
      Surface(Zero, "glass", Zero, One), Marker("Aperture", One) }

\* The constructor arguments of each specification, for lists of at most n
\* (interior) elements.
LifeArgs(n) ==
    {Omitted, NoneArg} \cup { ListArg(l) : l \in Lists(LifeElems, n) }
RevArgs(n) == { ListArg(l) : l \in Lists(RevElems, n) }
SetArgs(n) == { ListArg(l) : l \in Lists(SetElems, n) }
SizeArgs(n) == { ListArg(l) : l \in Framed(SizeElems, n) }
CutArgs(n) == { ListArg(l) : l \in Lists(CutElems, n) }
ChainArgs(n) == { ListArg(l) : l \in Framed(ChainElems, n) }

\* rescale(scale): the factors tried, and None
Factors == { Rat(2, 1), NoScale }

Wavelengths == {1, 2}

(***************************************************************************)
(* The state machine.  train and scale are the System; op is the last call *)
(* (op.name = "new" before the constructor has run), err the exception it  *)
(* raised, prev and prevScale the System before that call, pop the call    *)
(* before it and prev2 the list before that one.  cut holds the yields of  *)
(* the last surfaces_cut, pm the last paraxial_matrix call with its result. *)
(***************************************************************************)
Call(name, kind, i, j) == [name |-> name, kind |-> kind, i |-> i, j |-> j]

Init ==
    /\ train = << >>
    /\ scale = ScaleDefault
    /\ op = Call("new", "", 0, 0)
    /\ err = ""
    /\ prev = << >>
    /\ prevScale = ScaleDefault
    /\ pop = "new"
    /\ prev2 = << >>
    /\ cut = << >>
    /\ pm = {}
    /\ steps = 0

\* What every call records about the state it started from.
Record(call, e) ==
    /\ op' = call
    /\ err' = e
    /\ prev' = train
    /\ prevScale' = scale
    /\ pop' = op.name
    /\ prev2' = prev
    /\ steps' = steps + 1

\* System(...) with the elements argument drawn from Args
Construct(Args) ==
    /\ op.name = "new"
    /\ \E a \in Args :
         /\ train' = SystemInit(a)
         /\ scale' = ScaleDefault
         /\ Record(Call("init", a.given, 0, 0), "")
    /\ UNCHANGED <<cut, pm>>

Reverse(bound) ==
    /\ op.name # "new"
    /\ steps <= bound
    /\ train' = reverse(train)
    /\ Record(Call("reverse", "", 0, 0), "")
    /\ pm' = {}
    /\ UNCHANGED <<scale, cut>>

Rescale(bound) ==
    /\ op.name # "new"
    /\ steps <= bound
    /\ \E arg \in Factors, failAt \in 0..Len(train) :
         LET r == rescale(train, scale, arg, failAt)
         IN  /\ train' = r.train
             /\ scale' = r.scale
             /\ Record(Call("rescale", IF arg = NoScale THEN "None" ELSE "",
                            failAt, 0), r.err)
    /\ pm' = {}
    /\ UNCHANGED cut

FixSizes(bound) ==
    /\ op.name # "new"
    /\ steps <= bound
    /\ LET r == fix_sizes(train)
       IN  /\ train' = r.train
           /\ Record(Call("fix_sizes", "", 0, 0), r.err)
    /\ pm' = {}
    /\ UNCHANGED <<scale, cut>>

\* system.object = value, for a new Object or (wrongly) a new Aperture
SetObject(bound) ==
    /\ op.name # "new"
    /\ steps <= bound
    /\ \E ty \in {"Object", "Aperture"} :
         LET value == Element(100 + steps, ty, Zero, "absent", Zero, One)
             r == object_set(train, value)
         IN  /\ train' = r.train
             /\ Record(Call("object", ty, 100 + steps, 0), r.err)
    /\ pm' = {}
    /\ UNCHANGED <<scale, cut>>

\* system.image = value, for a new Image or (wrongly) a new Aperture
SetImage(bound) ==
    /\ op.name # "new"
    /\ steps <= bound
    /\ \E ty \in {"Image", "Aperture"} :
         LET value == Element(200 + steps, ty, Zero, "absent", Zero, One)
             r == image_set(train, value)
         IN  /\ train' = r.train
             /\ Record(Call("image", ty, 200 + steps, 0), r.err)
    /\ pm' = {}
    /\ UNCHANGED <<scale, cut>>

\* list(system.surfaces_cut(axis, points))
SurfacesCut(bound) ==
    /\ op.name # "new"
    /\ steps <= bound
    /\ cut' = surfaces_cut(train)
    /\ Record(Call("surfaces_cut", "", 0, 0), "")
    /\ UNCHANGED <<train, scale, pm>>

\* system.paraxial_matrix(l, start, stop); pm keeps the call and its result
ParaxialMatrix ==
    /\ op.name # "new"
    /\ \E l \in Wavelengths, start \in 1..Len(train), stop \in 0..Len(train) :
         /\ stop = 0 \/ stop >= start
         /\ pm' = { [l |-> l, start |-> start, stop |-> stop,
                     m |-> paraxial_matrix(train, l, start, stop)] }
    /\ op' = Call("paraxial_matrix", "", 0, 0)
    /\ UNCHANGED <<train, scale, cut, err, prev, prevScale, pop, prev2, steps>>

\* The whole life of a System: construction, then any mutating call.
Next ==
    \/ Construct(LifeArgs(MaxLen))
    \/ Reverse(MaxSteps)
    \/ Rescale(MaxSteps)
    \/ FixSizes(MaxSteps)
    \/ SetObject(MaxSteps)
    \/ SetImage(MaxSteps)

Spec == Init /\ [][Next]_vars

\* reverse() called repeatedly on a constructed list
NextReverse == Construct(RevArgs(MaxLen)) \/ Reverse(MaxCalls)
SpecReverse == Init /\ [][NextReverse]_vars

\* the role setters called repeatedly on a constructed list
NextSetters == Construct(SetArgs(MaxLen)) \/ SetObject(MaxCalls) \/ SetImage(MaxCalls)
SpecSetters == Init /\ [][NextSetters]_vars

\* fix_sizes() called repeatedly on a constructed train
NextSizes == Construct(SizeArgs(MaxInterior)) \/ FixSizes(MaxCalls)
SpecSizes == Init /\ [][NextSizes]_vars

\* surfaces_cut() on a constructed list
NextCut == Construct(CutArgs(MaxLen)) \/ SurfacesCut(MaxCalls)
SpecCut == Init /\ [][NextCut]_vars

\* paraxial_matrix() calls on a constructed train
NextParaxial == Construct(ChainArgs(MaxChain)) \/ ParaxialMatrix
SpecParaxial == Init /\ [][NextParaxial]_vars

(***************************************************************************)
(* reverse()                                                               *)
(***************************************************************************)
\* The element of list t that is the object id.
ById(t, id) == CHOOSE e \in { t[i] : i \in 1..Len(t) } : e.id = id

\* Position of the last element of t that has a material attribute, 0 if none.
LastMaterial(t) ==
    IF \E i \in 1..Len(t) : HasMaterial(t[i])
    THEN CHOOSE i \in 1..Len(t) :
           HasMaterial(t[i]) /\ \A j \in (i + 1)..Len(t) : ~HasMaterial(t[j])
    ELSE 0

TwiceReversed == op.name = "reverse" /\ pop = "reverse"

\* C1 as stated: reverse(); reverse() gives back the element order, distances,
\* materials and curvatures of the train it started from, for any train.
C1_RoundTripIdentity ==
    TwiceReversed =>
        /\ Len(train) = Len(prev2)
        /\ \A i \in 1..Len(train) :
             /\ train[i].id = prev2[i].id
             /\ train[i].distance = prev2[i].distance
             /\ train[i].material = prev2[i].material
             /\ train[i].curvature = prev2[i].curvature

\* C1 amended: reverse(); reverse() gives back the element order and the
\* curvatures, every distance but that of element 0, which becomes 0, and
\* every material but that of the last material-bearing element, which
\* becomes None; so it is the identity exactly on trains whose element 0 has
\* distance 0 and whose last material-bearing element has material None.
C1_RoundTripButHeadAndLastMaterial ==
    TwiceReversed =>
        /\ Len(train) = Len(prev2)
        /\ \A i \in 1..Len(train) :
             /\ train[i].id = prev2[i].id
             /\ train[i].curvature = prev2[i].curvature
             /\ train[i].radius = prev2[i].radius
             /\ train[i].distance =
                  (IF i = 1 THEN Zero ELSE prev2[i].distance)
             /\ train[i].material =
                  (IF i = LastMaterial(prev2) THEN "none"
                   ELSE prev2[i].material)
        /\ (train = prev2) <=>
             /\ Len(prev2) > 0 => prev2[1].distance = Zero
             /\ LastMaterial(prev2) # 0 =>
                  prev2[LastMaterial(prev2)].material = "none"

\* A three-element train with a distance on element 0 and glass on its last
\* surface has been reversed twice.
C1_Witness ==
    /\ TwiceReversed
    /\ Len(prev2) = 3
    /\ prev2[1].distance # Zero
    /\ prev2[2].material = "air"
    /\ prev2[3].material = "glass"
    /\ prev2[1].material = "absent"

\* C10: after reverse() the order is reversed, the head's distance is 0, and
\* every other element has the pre-reversal distance of the element now just
\* before it, so each adjacent pair keeps its separation.
C10_DistancesShiftForward ==
    op.name = "reverse" =>
        LET N == Len(train)
        IN  /\ Len(prev) = N
            /\ \A i \in 1..N : train[i].id = prev[N + 1 - i].id
            /\ N > 0 => train[1].distance = Zero
            /\ \A i \in 2..N :
                 train[i].distance = ById(prev, train[i - 1].id).distance
            /\ \A j \in 1..(N - 1) :
                 \E i \in 2..N :
                   /\ train[i].id = prev[j].id
                   /\ train[i - 1].id = prev[j + 1].id
                   /\ train[i].distance = prev[j + 1].distance

\* A three-element train with distances 1, 0, 1 has been reversed.
C10_Witness ==
    /\ op.name = "reverse"
    /\ pop = "init"
    /\ Len(prev) = 3
    /\ prev[1].distance = One
    /\ prev[2].distance = Zero
    /\ prev[3].distance = One

(***************************************************************************)
(* Roles, construction, rescale                                            *)
(***************************************************************************)
\* The object and image getters both succeed.
RolesHold(t) == object_get(t) = "" /\ image_get(t) = ""

\* C2: from a train with an Object at the head and an Image at the tail, no
\* call of reverse(), rescale(), fix_sizes() or a role setter leads to a
\* train whose head is not an Object or whose tail is not an Image.
C2_RolesPreserved == [][RolesHold(train) => RolesHold(train')]_vars

\* C6: a rescale() that raised has changed neither the scale nor any element.
C6_RescaleAtomic ==
    (op.name = "rescale" /\ err # "") =>
        (train = prev /\ scale = prevScale)

\* C8: System() with the elements argument left out is Object, Aperture,
\* Image, and the three accessors succeed.
C8_DefaultTriple ==
    (op.name = "init" /\ op.kind = "omitted") =>
        /\ Len(train) = 3
        /\ IsObject(train[1]) /\ IsAperture(train[2]) /\ IsImage(train[3])
        /\ object_get(train) = ""
        /\ aperture(train) # 0
        /\ image_get(train) = ""

C3_FixSizesIdempotent ==
    (op.name = "fix_sizes" /\ pop = "fix_sizes" /\ err = "") =>
        \A i \in 1..Len(train) : train[i].radius = prev[i].radius

\* The interior position of the closing surface of p: the next interior
\* element with a material attribute, 0 if there is none.
Closing(t, p) ==
    IF \E e \in (p + 1)..(Len(t) - 1) : HasMaterial(t[e])
    THEN CHOOSE e \in (p + 1)..(Len(t) - 1) :
           HasMaterial(t[e]) /\ \A j \in (p + 1)..(e - 1) : ~HasMaterial(t[j])
    ELSE 0

\* C4: after fix_sizes() every interior solid surface p with closing surface
\* e has p.radius >= e.radius when p is convex (curvature > 0) and
\* e.radius >= p.radius when e has curvature < 0.
C4_ConvexAtLeastClosing ==
    (op.name = "fix_sizes" /\ err = "") =>
        \A p \in 2..(Len(train) - 1) :
            (HasMaterial(train[p]) /\ Solid(train[p])
               /\ Closing(train, p) # 0) =>
                LET e == Closing(train, p)
                IN  /\ RLt(Zero, train[p].curvature) =>
                          ~RLt(train[p].radius, train[e].radius)
                    /\ RLt(train[e].curvature, Zero) =>
                          ~RLt(train[e].radius, train[p].radius)

(***************************************************************************)
(* surfaces_cut()                                                          *)
(***************************************************************************)
\* The element at position i carries a material.
Bears(t, i) == t[i].material \notin {"absent", "none"}

\* Position of the last material-bearing element before i, 0 if none.
BearerBefore(t, i) ==
    IF \E j \in 1..(i - 1) : Bears(t, j)
    THEN CHOOSE j \in 1..(i - 1) :
           Bears(t, j) /\ \A k \in (j + 1)..(i - 1) : ~Bears(t, k)
    ELSE 0

\* A solid outline is pending when position i is visited.
PendingAt(t, i) == BearerBefore(t, i) # 0 /\ Solid(t[BearerBefore(t, i)])

\* C9: surfaces_cut yields, in element order and at most once per element,
\* an open curve for each element without a material and for each non-solid
\* surface met while nothing is pending, and a closed polygon for each
\* material-bearing element met while a solid outline is pending, joined to
\* that outline: one polygon per solid surface that has a closing surface;
\* a train without material-bearing elements yields one open curve per
\* element and nothing else.
C9_CutYields ==
    op.name = "surfaces_cut" =>
        LET t == train
            N == Len(t)
            K == Len(cut)
            Opens == { i \in 1..N :
                         ~Bears(t, i) \/ (~Solid(t[i]) /\ ~PendingAt(t, i)) }
            Closeds == { i \in 1..N : Bears(t, i) /\ PendingAt(t, i) }
        IN  /\ \A k \in 1..(K - 1) : cut[k].el < cut[k + 1].el
            /\ { cut[k].el : k \in { x \in 1..K : cut[x].kind = "open" } }
                 = Opens
            /\ { cut[k].el : k \in { x \in 1..K : cut[x].kind = "closed" } }
                 = Closeds
            /\ \A k \in 1..K :
                 cut[k].kind = "closed" =>
                     cut[k].with = BearerBefore(t, cut[k].el)
            /\ Cardinality(Closeds) =
                 Cardinality({ i \in 1..N :
                     Bears(t, i) /\ Solid(t[i])
                       /\ \E j \in (i + 1)..N : Bears(t, j) })
            /\ (\A i \in 1..N : ~Bears(t, i)) =>
                 (K = N /\ \A k \in 1..K : cut[k].kind = "open")

\* The cut of glass, glass, air: nothing for the first, a polygon for each of
\* the other two.
C9_Witness ==
    /\ op.name = "surfaces_cut"
    /\ Len(train) = 3
    /\ train[1].material = "glass"
    /\ train[2].material = "glass"
    /\ train[3].material = "air"
    /\ Len(cut) = 2
    /\ cut[1].kind = "closed" /\ cut[2].kind = "closed"

(***************************************************************************)
(* paraxial_matrix()                                                       *)
(***************************************************************************)
\* The last call was paraxial_matrix(l, 1, n) over the whole train.
WholeChain(r) == r.start = 1 /\ r.stop = Len(train)

\* The index paraxial_matrix(l, k, n) starts from, element k-1's own, is the
\* index the chain from element 0 carries out of element k-1.
SeedAgrees(t, l, k) ==
    \/ k = 1
    \/ paraxial_matrices(t, l, 1, k)[k - 1].n = ElRefractiveIndex(t[k], l)

\* C5 as stated: paraxial_matrix(l, 1, k) . paraxial_matrix(l, k, n), the
\* earlier range on the left, is paraxial_matrix(l, 1, n) for every split
\* point k (here only asked of the split points where the seed agrees).
C5_SplitFirstTimesSecond ==
    \A r \in pm :
        WholeChain(r) =>
            \A k \in 1..Len(train) :
                SeedAgrees(train, r.l, k) =>
                    Dot(paraxial_matrix(train, r.l, 1, k),
                        paraxial_matrix(train, r.l, k, Len(train))) = r.m

\* C5 amended: paraxial_matrix(l, k, n) . paraxial_matrix(l, 1, k), the later
\* range on the left, is paraxial_matrix(l, 1, n) for every split point k at
\* which the index seeded from element k-1 is the one the whole chain
\* carries into element k.
C5_SplitSecondTimesFirst ==
    \A r \in pm :
        WholeChain(r) =>
            \A k \in 1..Len(train) :
                SeedAgrees(train, r.l, k) =>
                    Dot(paraxial_matrix(train, r.l, k, Len(train)),
                        paraxial_matrix(train, r.l, 1, k)) = r.m

\* The whole chain of Object, glass, air, Image has been computed, and its
\* two halves at the split k = 2 do not commute.
C5_Witness ==
    \E r \in pm :
        /\ WholeChain(r)
        /\ Len(train) = 4
        /\ train[2].material = "glass"
        /\ train[3].material = "air"
        /\ SeedAgrees(train, r.l, 2)
        /\ Dot(paraxial_matrix(train, r.l, 1, 2),
               paraxial_matrix(train, r.l, 2, 4)) # r.m

====
